---- MODULE Spec2Model ----
(***************************************************************************)
(* Model of the nonconformance analyzer (data_analyzer.py): the            *)
(* DataAnalyzer object, its analyze_data aggregation, its three read       *)
(* operations and compare_with_previous.                                   *)
(*                                                                         *)
(* Text cells are sequences of tokens: a word token stands for a run of    *)
(* non-blank, non-slash characters, "/" is the delimiter and " " a blank.  *)
(* Costs are exact rationals [n, d] in lowest terms, so that C / N is      *)
(* computed as a division and not assumed to be an integer.                *)
(***************************************************************************)
EXTENDS Integers, Sequences, FiniteSets, TLC

VARIABLES records, role_counts, role_costs, department_counts,
          department_costs, call, data,
          loader, history, app, workers, pending

\* the state of the application around the analyzer: the DataLoader, the
\* history folder, the window, the worker threads and the callbacks
\* scheduled with root.after that are still pending
appvars == <<loader, history, app, workers, pending>>

vars == <<records, role_counts, role_costs, department_counts,
          department_costs, call, data, appvars>>

(* ------------------------------ bounds --------------------------------- *)

\* largest number of rows of a dataset
MaxRows == 2

\* largest labour cost of one row
MaxCost == 1

\* largest number of tokens of a responsible-party text
MaxLen == 3

\* largest number of user events (uploads, ticks of the checkbox, report
\* requests) of a run, and of copies kept in the history folder
MaxEvents == 3

\* latest modification time of a file and latest second of the clock
MaxTime == 2

(* ------------------------------ values --------------------------------- *)

\* Python None
None == [t |-> "none"]

\* an empty spreadsheet cell (pandas NaN)
NaN == [t |-> "nan"]

\* a text cell
Str(s) == [t |-> "str", s |-> s]

\* a numeric cell
Num(n) == [t |-> "num", n |-> n]

\* a DataFrame with the three required columns
DataFrame(rows) == [t |-> "df", rows |-> rows]

\* pd.notna / pd.isna on one cell
notna(cell) == cell.t # "nan"

isna(cell) == cell.t = "nan"

Production == "Production"

Office == "Office"

\* the iteration order of the department dictionaries
Departments == <<Production, Office>>

\* DataAnalyzer.production_roles
production_roles ==
    {<<"Rezka">>, <<"Gibka">>, <<"Sborka">>, <<"Pokraska">>, <<"Sklad">>}

\* DataAnalyzer.office_roles
office_roles ==
    {<<"Manager">>, <<"Raschetchik">>, <<"Konstruktor">>, <<"Programmist">>}

(* --------------------------- exact arithmetic -------------------------- *)

RECURSIVE GCD(_, _)
GCD(a, b) == IF b = 0 THEN a ELSE GCD(b, a % b)

Abs(x) == IF x < 0 THEN -x ELSE x

\* the rational n / d, d > 0, in lowest terms
Rat(n, d) == LET g == GCD(Abs(n), d) IN [n |-> n \div g, d |-> d \div g]

Zero == Rat(0, 1)

RatAdd(x, y) == Rat(x.n * y.d + y.n * x.d, x.d * y.d)

RatSub(x, y) == Rat(x.n * y.d - y.n * x.d, x.d * y.d)

\* x / k for an integer k >= 1
RatDiv(x, k) == Rat(x.n, x.d * k)

RatMul(x, k) == Rat(x.n * k, x.d)

RatLeq(x, y) == x.n * y.d <= y.n * x.d

(* ------------------------ insertion-ordered dict ----------------------- *)

\* a dict is the sequence of its items [k, v] in insertion order
DictHas(d, key) == \E i \in 1..Len(d) : d[i].k = key

DictGet(d, key, default) ==
    IF DictHas(d, key)
    THEN d[CHOOSE i \in 1..Len(d) : d[i].k = key].v
    ELSE default

DictSet(d, key, val) ==
    IF DictHas(d, key)
    THEN [i \in 1..Len(d) |-> IF d[i].k = key THEN [k |-> key, v |-> val] ELSE d[i]]
    ELSE Append(d, [k |-> key, v |-> val])

DictKeys(d) == {d[i].k : i \in 1..Len(d)}

(* ------------------------------ strings -------------------------------- *)

\* a split that gives no piece for an empty text, as str.split() without a
\* separator does
RECURSIVE split_without_empty_text(_)
split_without_empty_text(s) ==
    IF s = <<>> THEN <<>>
    ELSE IF \E i \in 1..Len(s) : s[i] = "/"
    THEN LET i == CHOOSE j \in 1..Len(s) :
                     s[j] = "/" /\ \A m \in 1..(j - 1) : s[m] # "/"
         IN  <<SubSeq(s, 1, i - 1)>>
                 \o split_without_empty_text(SubSeq(s, i + 1, Len(s)))
    ELSE <<s>>

\* str.split("/")
RECURSIVE split(_)
split(s) ==
    IF \E i \in 1..Len(s) : s[i] = "/"
    THEN LET i == CHOOSE j \in 1..Len(s) :
                     s[j] = "/" /\ \A m \in 1..(j - 1) : s[m] # "/"
         IN  <<SubSeq(s, 1, i - 1)>> \o split(SubSeq(s, i + 1, Len(s)))
    ELSE <<s>>

\* str.strip()
RECURSIVE strip(_)
strip(s) ==
    IF s = <<>> THEN s
    ELSE IF Head(s) = " " THEN strip(Tail(s))
    ELSE IF s[Len(s)] = " " THEN strip(SubSeq(s, 1, Len(s) - 1))
    ELSE s

\* _split_roles with the empty pieces left out
split_roles_filtered(roles_str) ==
    IF isna(roles_str) THEN <<>>
    ELSE LET pieces == split(roles_str.s)
         IN  SelectSeq([i \in 1..Len(pieces) |-> strip(pieces[i])],
                       LAMBDA r : r # <<>>)

\* DataAnalyzer._split_roles on a text cell or NaN
split_roles(roles_str) ==
    IF isna(roles_str) THEN <<>>
    ELSE LET pieces == split(roles_str.s)
         IN  [i \in 1..Len(pieces) |-> strip(pieces[i])]

(* ------------------------------ datasets ------------------------------- *)

\* the text of a cell, token by token
Rezka == <<"Rezka">>

Gibka == <<"Gibka">>

Manager == <<"Manager">>

\* a role name of neither membership list
Svarka == <<"Svarka">>

\* the two responsible-party cells of a row: (production, office)
FieldPairs ==
    { <<NaN, NaN>>,
      <<Str(<<"Rezka", " ", "/", " ", "Gibka">>), NaN>>,
      <<Str(<<"Rezka", "/", "Rezka">>), Str(Manager)>>,
      <<Str(Svarka), Str(Rezka)>> }

Row(cost, prod, office) == [cost |-> cost, prod |-> prod, office |-> office]

\* rows with a numeric cost and text or empty responsible-party cells
GoodRows == {Row(Num(c), f[1], f[2]) : c \in 0..MaxCost, f \in FieldPairs}

\* a row that makes the row loop raise: a number in the office cell
\* (AttributeError in _split_roles), after the production cell was added
BadRows == { Row(Num(1), Str(Rezka), Num(5)) }

Rows == GoodRows \cup BadRows

RECURSIVE SeqsOf(_, _)
SeqsOf(S, n) ==
    IF n = 0 THEN {<<>>}
    ELSE LET shorter == SeqsOf(S, n - 1)
         IN  shorter \cup {Append(q, x) : q \in {r \in shorter : Len(r) = n - 1}, x \in S}

\* the record sequences a run is about
Datasets == SeqsOf(Rows, MaxRows)

RECURSIVE Reverse(_)
Reverse(s) == IF s = <<>> THEN s ELSE Append(Reverse(Tail(s)), Head(s))

Front(s) == IF s = <<>> THEN s ELSE SubSeq(s, 1, Len(s) - 1)

\* what analyze_data is called with: nothing, the records (possibly none),
\* the records without the last row
Inputs(recs) == {None, DataFrame(recs), DataFrame(Front(recs))}

(* ---------------------------- analyze_data ----------------------------- *)

DepartmentSet == {Production, Office}

\* dictionaries that go on from the results the analyzer holds
EmptyResults_kept ==
    IF role_counts = [t |-> "none"]
    THEN [role_counts |-> [d \in DepartmentSet |-> <<>>],
          role_costs |-> [d \in DepartmentSet |-> <<>>],
          department_counts |-> [d \in DepartmentSet |-> 0],
          department_costs |-> [d \in DepartmentSet |-> Zero]]
    ELSE [role_counts |-> role_counts, role_costs |-> role_costs,
          department_counts |-> department_counts,
          department_costs |-> department_costs]

\* the four dictionaries analyze_data starts from
EmptyResults ==
    [role_counts |-> [d \in DepartmentSet |-> <<>>],
     role_costs |-> [d \in DepartmentSet |-> <<>>],
     department_counts |-> [d \in DepartmentSet |-> 0],
     department_costs |-> [d \in DepartmentSet |-> Zero]]

\* the responsible-party cell of a row for a department
Field(row, dept) == IF dept = Production THEN row.prod ELSE row.office

\* cost_per_role = labor_cost / len(roles)
cost_share_unsplit(labor_cost, n) == Rat(labor_cost, 1)

cost_share(labor_cost, n) == RatDiv(Rat(labor_cost, 1), n)

\* role_counts[dept][role], created with 0 for a new role, += 1
add_role_count(counts, role) ==
    DictSet(counts, role, DictGet(counts, role, 0) + 1)

\* role_costs[dept][role], created with 0 for a new role, += cost_per_role
add_role_cost_overwrite(costs, role, cost_per_role) ==
    DictSet(costs, role, cost_per_role)

add_role_cost(costs, role, cost_per_role) ==
    DictSet(costs, role, RatAdd(DictGet(costs, role, Zero), cost_per_role))

\* department_costs[dept] += cost_per_role
add_department_cost_skipped(total, cost_per_role) == total

add_department_cost(total, cost_per_role) == RatAdd(total, cost_per_role)

\* the loop "for role in roles" of one department
RECURSIVE add_roles(_, _, _, _)
add_roles(res, dept, roles, cost_per_role) ==
    IF roles = <<>> THEN res
    ELSE LET role == strip(Head(roles))
             res1 == [role_counts |->
                          [res.role_counts EXCEPT
                              ![dept] = add_role_count(@, role)],
                      role_costs |->
                          [res.role_costs EXCEPT
                              ![dept] = add_role_cost(@, role, cost_per_role)],
                      department_counts |->
                          [res.department_counts EXCEPT ![dept] = @ + 1],
                      department_costs |->
                          [res.department_costs EXCEPT
                              ![dept] = add_department_cost(@, cost_per_role)]]
         IN  add_roles(res1, dept, Tail(roles), cost_per_role)

\* one "if pd.notna(row[...])" block of the row loop; st is [raised, res]
process_department(st, dept, row) ==
    LET cell == Field(row, dept)
    IN  IF st.raised # "none" \/ ~notna(cell) THEN st
        ELSE IF cell.t # "str" THEN [st EXCEPT !.raised = "AttributeError"]
        ELSE LET roles == split_roles(cell)
                 cost_per_role == cost_share(row.cost.n, Len(roles))
             IN  [st EXCEPT !.res = add_roles(st.res, dept, roles, cost_per_role)]

\* the body of "for _, row in data.iterrows()"
process_row(st, row) ==
    process_department(process_department(st, Production, row), Office, row)

\* the row loop, stopped by the first exception
RECURSIVE process_rows(_, _)
process_rows(st, rows) ==
    IF rows = <<>> \/ st.raised # "none" THEN st
    ELSE process_rows(process_row(st, Head(rows)), Tail(rows))

\* analyze_data without its check for an empty dataset: df.copy() fails on
\* None, the row loop of an empty table does nothing
analyze_unguarded(df) ==
    IF df = None
    THEN [raised |-> "AttributeError", res |-> EmptyResults, ret |-> None]
    ELSE LET st == process_rows([raised |-> "none", res |-> EmptyResults], df.rows)
         IN  IF st.raised # "none"
             THEN [raised |-> st.raised, res |-> st.res, ret |-> None]
             ELSE [raised |-> "none", res |-> st.res, ret |-> st.res]

\* analyze_data as a function of its argument: the exception raised (or
\* "none"), the dictionaries built so far and the result returned
analyze(df) ==
    IF df = None \/ df.rows = <<>>
    THEN [raised |-> "ValueError", res |-> EmptyResults, ret |-> None]
    ELSE LET st == process_rows([raised |-> "none", res |-> EmptyResults], df.rows)
         IN  IF st.raised # "none"
             THEN [raised |-> st.raised, res |-> st.res, ret |-> None]
             ELSE [raised |-> "none", res |-> st.res, ret |-> st.res]

(* ----------------------------- application ----------------------------- *)

\* the states of a Tk control
NORMAL == "normal"

DISABLED == "disabled"

\* DataLoader.__init__
LoaderInit == [current_data |-> None, previous_data |-> None]

\* NonconformanceAnalyzerApp.__init__ and _create_ui: no data, comparison
\* not ticked, the download button disabled, no comparison tab, no error box
\* shown and no user event so far
WindowInit ==
    [current_data |-> None, current_results |-> None,
     current_figure |-> None, comparison_figure |-> None,
     compare_var |-> FALSE,
     upload_button |-> NORMAL, compare_checkbox |-> NORMAL,
     download_button |-> DISABLED,
     comparison_tab |-> None, errors |-> 0, events |-> 0]

\* the application when it starts with an empty history folder
AppInit ==
    /\ loader = LoaderInit
    /\ history = <<>>
    /\ app = WindowInit
    /\ workers = <<>>
    /\ pending = <<>>

(* ------------------------------ operations ----------------------------- *)

\* the record of the latest call on the analyzer
Call(name, args, raised, ret) ==
    [name |-> name, args |-> args, raised |-> raised, ret |-> ret]

\* a constructor that starts from empty dictionaries instead of None
Init_empty ==
    /\ records \in Datasets
    /\ role_counts = EmptyResults.role_counts
    /\ role_costs = EmptyResults.role_costs
    /\ department_counts = EmptyResults.department_counts
    /\ department_costs = EmptyResults.department_costs
    /\ call = Call("init", <<>>, "none", None)
    /\ data = None
    /\ AppInit

Init ==
    /\ records \in Datasets
    /\ role_counts = None
    /\ role_costs = None
    /\ department_counts = None
    /\ department_costs = None
    /\ call = Call("init", <<>>, "none", None)
    /\ data = None
    /\ AppInit

\* whether a run a of analyze_data reaches the assignments to self
stores_always(a) == TRUE

stores(a) == a.raised = "none"

\* DataAnalyzer.analyze_data(df)
analyze_data(df) ==
    \E a \in {analyze(df)} :
        /\ call' = Call("analyze_data", <<df>>, a.raised, a.ret)
        /\ data' = IF a.raised = "none" THEN df ELSE data
        /\ IF stores(a)
           THEN /\ role_counts' = a.res.role_counts
                /\ role_costs' = a.res.role_costs
                /\ department_counts' = a.res.department_counts
                /\ department_costs' = a.res.department_costs
           ELSE UNCHANGED <<role_counts, role_costs, department_counts,
                            department_costs>>
        /\ UNCHANGED <<records, appvars>>

\* the analyzer's stored results as the dictionary analyze_data returned
\* (the application keeps it as current_results)
current_results ==
    IF role_counts = None THEN None
    ELSE [role_counts |-> role_counts, role_costs |-> role_costs,
          department_counts |-> department_counts,
          department_costs |-> department_costs]

\* the chart entries of one department: labels, sizes, colors, departments
chart_entries(counts, dept, color) ==
    [labels |-> [i \in 1..Len(counts) |-> counts[i].k],
     sizes |-> [i \in 1..Len(counts) |-> counts[i].v],
     colors |-> [i \in 1..Len(counts) |-> color],
     department_labels |-> [i \in 1..Len(counts) |-> dept]]

\* DataAnalyzer.get_role_data_for_chart()
get_role_data_for_chart ==
    /\ call' =
         IF role_counts = None
         THEN Call("get_role_data_for_chart", <<>>, "ValueError", None)
         ELSE LET p == chart_entries(role_counts[Production], Production, "blue")
                  o == chart_entries(role_counts[Office], Office, "orange")
              IN  Call("get_role_data_for_chart", <<>>, "none",
                       [labels |-> p.labels \o o.labels,
                        sizes |-> p.sizes \o o.sizes,
                        colors |-> p.colors \o o.colors,
                        department_labels |->
                            p.department_labels \o o.department_labels])
    /\ UNCHANGED <<records, role_counts, role_costs, department_counts,
                   department_costs, data, appvars>>

\* the row orders DataFrame.sort_values(by=key, ascending=False) may produce
\* for the rows "remaining": every arrangement with non-increasing keys.
\* The default sort kind (quicksort) promises no order among equal keys.
RECURSIVE argsort_ascending(_, _)
argsort_ascending(keys, remaining) ==
    IF remaining = {} THEN {<<>>}
    ELSE LET first == {i \in remaining :
                          \A j \in remaining : RatLeq(keys[i], keys[j])}
         IN  UNION {{<<i>> \o rest :
                        rest \in argsort_ascending(keys, remaining \ {i})} :
                    i \in first}

RECURSIVE argsort(_, _)
argsort(keys, remaining) ==
    IF remaining = {} THEN {<<>>}
    ELSE LET first == {i \in remaining :
                          \A j \in remaining : RatLeq(keys[j], keys[i])}
         IN  UNION {{<<i>> \o rest : rest \in argsort(keys, remaining \ {i})} :
                    i \in first}

\* the frame with its rows taken in the order of an indexer
take(frame, indexer) == [i \in 1..Len(indexer) |-> frame[indexer[i]]]

\* the list roles_data of get_sorted_role_costs for one department
roles_data(costs, counts, dept) ==
    [i \in 1..Len(costs) |->
        [department |-> dept, role |-> costs[i].k, cost |-> costs[i].v,
         count |-> DictGet(counts, costs[i].k, 0)]]

\* pd.DataFrame(list): the rows with their index labels 0, 1, ...
frame_of(list) ==
    [i \in 1..Len(list) |-> [index |-> i - 1, row |-> list[i]]]

\* the frame df_roles of get_sorted_role_costs before it is sorted
role_frame(costs, counts) ==
    frame_of(roles_data(costs[Production], counts[Production], Production)
             \o roles_data(costs[Office], counts[Office], Office))

\* DataAnalyzer.get_sorted_role_costs()
get_sorted_role_costs ==
    /\ IF role_costs = None
       THEN call' = Call("get_sorted_role_costs", <<>>, "ValueError", None)
       ELSE \E df_roles \in {role_frame(role_costs, role_counts)} :
              IF df_roles = <<>>
              THEN call' = Call("get_sorted_role_costs", <<>>, "KeyError", None)
              ELSE \E keys \in {[i \in 1..Len(df_roles) |-> df_roles[i].row.cost]} :
                   \E indexer \in argsort(keys, 1..Len(df_roles)) :
                      call' = Call("get_sorted_role_costs", <<>>, "none",
                                   take(df_roles, indexer))
    /\ UNCHANGED <<records, role_counts, role_costs, department_counts,
                   department_costs, data, appvars>>

\* DataAnalyzer.get_department_summary()
get_department_summary ==
    /\ call' =
         IF department_costs = None
         THEN Call("get_department_summary", <<>>, "ValueError", None)
         ELSE Call("get_department_summary", <<>>, "none",
                   [i \in 1..Len(Departments) |->
                       [department |-> Departments[i],
                        count |-> department_counts[Departments[i]],
                        cost |-> department_costs[Departments[i]]]])
    /\ UNCHANGED <<records, role_counts, role_costs, department_counts,
                   department_costs, data, appvars>>

\* a set as a list in some iteration order
RECURSIVE list_of(_)
list_of(S) ==
    IF S = {} THEN <<>>
    ELSE LET x == CHOOSE y \in S : TRUE IN <<x>> \o list_of(S \ {x})

\* the role names of either department of a result
result_roles(results) ==
    DictKeys(results.role_counts[Production])
        \cup DictKeys(results.role_counts[Office])

\* one element of comparison_data, with the previous cost read from
\* role_counts
comparison_row_cost_from_counts(role, current, previous) ==
    LET dept == IF role \in production_roles THEN Production ELSE Office
        current_count == DictGet(current.role_counts[dept], role, 0)
        current_cost == DictGet(current.role_costs[dept], role, Zero)
        prev_count == DictGet(previous.role_counts[dept], role, 0)
        prev_cost == Rat(DictGet(previous.role_counts[dept], role, 0), 1)
    IN  [department |-> dept, role |-> role,
         current_count |-> current_count, prev_count |-> prev_count,
         count_diff |-> current_count - prev_count,
         current_cost |-> current_cost, prev_cost |-> prev_cost,
         cost_diff |-> RatSub(current_cost, prev_cost)]

\* one element of comparison_data
comparison_row(role, current, previous) ==
    LET dept == IF role \in production_roles THEN Production ELSE Office
        current_count == DictGet(current.role_counts[dept], role, 0)
        current_cost == DictGet(current.role_costs[dept], role, Zero)
        prev_count == DictGet(previous.role_counts[dept], role, 0)
        prev_cost == DictGet(previous.role_costs[dept], role, Zero)
    IN  [department |-> dept, role |-> role,
         current_count |-> current_count, prev_count |-> prev_count,
         count_diff |-> current_count - prev_count,
         current_cost |-> current_cost, prev_cost |-> prev_cost,
         cost_diff |-> RatSub(current_cost, prev_cost)]

\* the list comparison_data, in the iteration order of the set all_roles
comparison_data(current, previous) ==
    LET all_roles == list_of(result_roles(current) \cup result_roles(previous))
    IN  [i \in 1..Len(all_roles) |->
            comparison_row(all_roles[i], current, previous)]

\* DataAnalyzer.compare_with_previous(current_results, previous_results)
compare_with_previous(current, previous) ==
    /\ IF current = None \/ previous = None
       THEN call' = Call("compare_with_previous", <<current, previous>>,
                         "ValueError", None)
       ELSE \E table \in {comparison_data(current, previous)} :
              IF table = <<>>
              THEN call' = Call("compare_with_previous", <<current, previous>>,
                                "KeyError", None)
              ELSE \E keys \in {[i \in 1..Len(table) |-> table[i].cost_diff]} :
                   \E indexer \in argsort(keys, 1..Len(table)) :
                      call' = Call("compare_with_previous",
                                   <<current, previous>>, "none",
                                   take(table, indexer))
    /\ UNCHANGED <<records, role_counts, role_costs, department_counts,
                   department_costs, data, appvars>>

\* the last row of the records alone
Back(s) == IF s = <<>> THEN s ELSE <<s[Len(s)]>>

\* the datasets a history file may hold: one of the inputs, or an older
\* file that shares no row with the records without the last row
PreviousInputs(recs) == Inputs(recs) \cup {DataFrame(Back(recs))}

\* the result of a second analyzer on a previous dataset (the application
\* analyses the previous dataset with a DataAnalyzer of its own)
PreviousResults == {analyze(df).ret : df \in PreviousInputs(records)}

\* the argument pairs of compare_with_previous: the stored results against
\* a previous result, and a missing current result
ComparePairs ==
    {<<current_results, previous>> : previous \in PreviousResults}
        \cup {<<None, current_results>>}

(* ----------------------------- visualizer ------------------------------ *)

\* get_role_data_for_chart of an analyzer whose role_counts is counts
role_data_for_chart(counts) ==
    IF counts = None
    THEN [raised |-> "ValueError", ret |-> None]
    ELSE LET p == chart_entries(counts[Production], Production, "blue")
             o == chart_entries(counts[Office], Office, "orange")
         IN  [raised |-> "none",
              ret |-> [labels |-> p.labels \o o.labels,
                       sizes |-> p.sizes \o o.sizes,
                       colors |-> p.colors \o o.colors,
                       department_labels |->
                           p.department_labels \o o.department_labels]]

\* DataVisualizer.department_colors
department_colors == [d \in DepartmentSet |->
                         IF d = Production THEN "royalblue" ELSE "darkorange"]

\* sum(sizes)
RECURSIVE sum(_)
sum(sizes) == IF sizes = <<>> THEN 0 ELSE Head(sizes) + sum(Tail(sizes))

\* an angle is the rational coefficient x of x * pi radians.
\* s / total * 2 * np.pi, for total # 0
angle_of_half_circle(s, total) == RatDiv(Rat(s, 1), total)

angle(s, total) == RatMul(RatDiv(Rat(s, 1), total), 2)

\* np.degrees
degrees(x) == RatMul(x, 180)

\* the angle the loops over the wedges go on from after a wedge
next_start_angle_kept(start_angle, end_angle) == start_angle

next_start_angle(start_angle, end_angle) == end_angle

\* the loop over zip(labels, sizes, colors) from entry i on: one Wedge of
\* the outer ring per entry
RECURSIVE outer_wedges(_, _, _, _)
outer_wedges(chart, total, i, start_angle) ==
    IF i > Len(chart.labels) THEN <<>>
    ELSE LET end_angle == RatAdd(start_angle, angle(chart.sizes[i], total))
         IN  <<[label |-> chart.labels[i],
                size |-> chart.sizes[i],
                facecolor |-> chart.colors[i],
                theta1 |-> degrees(start_angle),
                theta2 |-> degrees(end_angle)]>>
             \o outer_wedges(chart, total, i + 1,
                             next_start_angle(start_angle, end_angle))

\* the dictionary dept_data: the sizes added up by department label, in the
\* order in which the labels first appear
RECURSIVE dept_data(_, _, _)
dept_data(department_labels, sizes, i) ==
    IF i = 0 THEN <<>>
    ELSE LET d == dept_data(department_labels, sizes, i - 1)
         IN  DictSet(d, department_labels[i],
                     DictGet(d, department_labels[i], 0) + sizes[i])

\* the angle the loop over the inner ring starts from
inner_start_angle_continued(outer) ==
    IF outer = <<>> THEN Zero ELSE RatDiv(outer[Len(outer)].theta2, 180)

inner_start_angle(outer) == Zero

\* the loop over dept_data.items() from item i on: one Wedge of the inner
\* ring per department
RECURSIVE inner_wedges(_, _, _, _)
inner_wedges(depts, total, i, start_angle) ==
    IF i > Len(depts) THEN <<>>
    ELSE LET end_angle == RatAdd(start_angle, angle(depts[i].v, total))
         IN  <<[dept |-> depts[i].k,
                size |-> depts[i].v,
                facecolor |-> department_colors[depts[i].k],
                theta1 |-> degrees(start_angle),
                theta2 |-> degrees(end_angle)]>>
             \o inner_wedges(depts, total, i + 1,
                             next_start_angle(start_angle, end_angle))

\* the two rings drawn for chart data with at least one label; the division
\* by the total raises ZeroDivisionError for total = 0
rings(chart) ==
    LET total == sum(chart.sizes)
    IN  IF total = 0
        THEN [raised |-> "ZeroDivisionError", ret |-> None]
        ELSE LET outer == outer_wedges(chart, total, 1, Zero)
                 depts == dept_data(chart.department_labels, chart.sizes,
                                    Len(chart.sizes))
             IN  [raised |-> "none",
                  ret |-> [text |-> "",
                           outer |-> outer,
                           inner |-> inner_wedges(depts, total, 1,
                                                  inner_start_angle(outer))]]

\* create_pie_chart without its check for empty chart data
pie_chart_unguarded(counts) ==
    LET d == role_data_for_chart(counts)
    IN  IF d.raised # "none" THEN d ELSE rings(d.ret)

\* create_pie_chart for an analyzer whose role_counts is counts: the
\* exception raised (or "none") and the wedges of the figure
pie_chart(counts) ==
    LET d == role_data_for_chart(counts)
    IN  IF d.raised # "none" THEN d
        ELSE IF d.ret.labels = <<>>
        THEN [raised |-> "ValueError", ret |-> None]
        ELSE rings(d.ret)

\* _create_pie_subplot with the check of create_pie_chart
pie_subplot_raising(counts) == pie_chart(counts)

\* _create_pie_subplot for an analyzer whose role_counts is counts: the
\* "no data" text without wedges, or the two rings
pie_subplot(counts) ==
    LET d == role_data_for_chart(counts)
    IN  IF d.raised # "none" THEN d
        ELSE IF d.ret.labels = <<>>
        THEN [raised |-> "none",
              ret |-> [text |-> "Net dannyh", outer |-> <<>>, inner |-> <<>>]]
        ELSE rings(d.ret)

\* DataVisualizer.create_pie_chart(analyzer) on this analyzer
create_pie_chart ==
    /\ \E fig \in {pie_chart(role_counts)} :
          call' = Call("create_pie_chart", <<role_counts>>, fig.raised, fig.ret)
    /\ UNCHANGED <<records, role_counts, role_costs, department_counts,
                   department_costs, data, appvars>>

\* DataVisualizer.create_comparison_charts(current_analyzer,
\* previous_analyzer) with this analyzer as the current one: the previous
\* period is drawn first, the first exception ends the call
create_comparison_charts(previous_counts) ==
    /\ \E ax1 \in {pie_subplot(previous_counts)} :
       \E ax2 \in {pie_subplot(role_counts)} :
          call' = Call("create_comparison_charts",
                       <<role_counts, previous_counts>>,
                       IF ax1.raised # "none" THEN ax1.raised ELSE ax2.raised,
                       IF ax1.raised # "none" \/ ax2.raised # "none"
                       THEN None
                       ELSE [previous |-> ax1.ret, current |-> ax2.ret])
    /\ UNCHANGED <<records, role_counts, role_costs, department_counts,
                   department_costs, data, appvars>>

\* role_counts of the second analyzer after it was given a previous
\* dataset: None when its analysis raised
PreviousCounts ==
    {IF a.raised = "none" THEN a.res.role_counts ELSE None :
        a \in {analyze(df) : df \in PreviousInputs(records)}}

Next ==
    \/ \E df \in Inputs(records) : analyze_data(df)
    \/ get_role_data_for_chart
    \/ get_sorted_role_costs
    \/ get_department_summary
    \/ \E pair \in ComparePairs : compare_with_previous(pair[1], pair[2])

Spec == Init /\ [][Next]_vars

\* the visualizer on an analyzer that is given the records
NextChart ==
    \/ analyze_data(DataFrame(records))
    \/ create_pie_chart
    \/ \E previous_counts \in PreviousCounts :
          create_comparison_charts(previous_counts)

ChartSpec == Init /\ [][NextChart]_vars

(* ------------------------- splitting one field ------------------------- *)

\* the tokens of a responsible-party text: a role name, the delimiter, a
\* blank
Tokens == {"Rezka", "/", " "}

\* the responsible-party cells: empty (NaN), or any text of at most MaxLen
\* tokens, the empty string included
SplitFields == {NaN} \cup {Str(s) : s \in SeqsOf(Tokens, MaxLen)}

\* one record with a positive cost, its production cell drawn from the
\* fields, its office cell empty
InitSplit ==
    /\ records \in {<<Row(Num(c), f, NaN)>> : c \in 1..MaxCost, f \in SplitFields}
    /\ role_counts = None
    /\ role_costs = None
    /\ department_counts = None
    /\ department_costs = None
    /\ call = Call("init", <<>>, "none", None)
    /\ data = None
    /\ AppInit

\* DataAnalyzer._split_roles(roles_str)
call_split_roles(roles_str) ==
    /\ call' = Call("_split_roles", <<roles_str>>, "none", split_roles(roles_str))
    /\ UNCHANGED <<records, role_counts, role_costs, department_counts,
                   department_costs, data, appvars>>

NextSplit ==
    \/ analyze_data(DataFrame(records))
    \/ call_split_roles(records[1].prod)

SplitSpec == InitSplit /\ [][NextSplit]_vars

(* ------------------------- application handlers ------------------------ *)

\* a file pd.read_excel cannot read
Unreadable == [t |-> "unreadable"]

\* a readable file without the three required columns
MissingColumns == [t |-> "columns missing"]

\* a workbook on disk: its base name, what pd.read_excel makes of it and
\* its modification time
File(name, content, mtime) ==
    [name |-> name, content |-> content, mtime |-> mtime]

\* the modification times of the user's files
MTimes == 1..MaxTime

\* the one-record datasets of the user's files
AppDatasets == {recs \in Datasets : Len(recs) = 1 /\ recs[1].cost.n = 1}

\* the files load_file rejects: a sheet without the required columns, a
\* file that is no workbook
RejectedFiles ==
    {File("nocolumns", MissingColumns, MaxTime),
     File("noworkbook", Unreadable, 1)}

\* the files the user may pick: the records, modified at any of the times,
\* a sheet without rows, and the files load_file rejects
UploadFiles(recs) ==
    {File("records", DataFrame(recs), m) : m \in MTimes}
        \cup {File("norows", DataFrame(<<>>), 1)}
        \cup RejectedFiles

\* the copy of a file that _save_to_history makes at a second of the clock:
\* named after the file and the second, with the content and (shutil.copy2)
\* the modification time of the file
HistoryCopy(file, second) ==
    File(<<file.name, second>>, file.content, file.mtime)

\* the seconds the clock may show when a copy is made, up to what tells
\* the names apart: the second of the latest copy in the folder or a later
\* one
Seconds(folder) ==
    IF folder = <<>> THEN {1}
    ELSE LET latest == CHOOSE s \in {folder[i].name[2] : i \in 1..Len(folder)} :
                           \A i \in 1..Len(folder) : folder[i].name[2] <= s
         IN  {latest, latest + 1} \ {0}

\* the folder (latest copy first) after _save_to_history: a file of the same
\* name is overwritten
save_to_history(folder, file, second) ==
    <<HistoryCopy(file, second)>>
        \o SelectSeq(folder, LAMBDA h : h.name # <<file.name, second>>)

\* the history folder when the application starts: created empty, or found
\* with a workbook that no load_file has put there
HistoryFolders ==
    {<<>>} \cup {<<HistoryCopy(file, 0)>> : file \in RejectedFiles}

\* DataLoader.load_file(file_path): the outcomes, each with whether it
\* succeeded, the loader and the history folder after it. The copy to the
\* history folder is made after current_data is assigned, and may fail.
load_file(file_path) ==
    IF file_path.content.t # "df"
    THEN {[success |-> FALSE, loader |-> loader, history |-> history]}
    ELSE LET read == [loader EXCEPT !.current_data = file_path.content]
         IN  {[success |-> TRUE, loader |-> read,
               history |-> save_to_history(history, file_path, second)] :
                 second \in Seconds(history)}
             \cup {[success |-> FALSE, loader |-> read, history |-> history]}

\* the files that may come first when the folder is sorted by modification
\* time, newest first
latest_files(folder) ==
    {i \in 1..Len(folder) :
        \A j \in 1..Len(folder) : folder[j].mtime <= folder[i].mtime}

\* DataLoader.load_previous_file(): the outcomes, each with whether it
\* succeeded, the loader after it and the file it took
load_previous_file ==
    IF history = <<>>
    THEN {[success |-> FALSE, loader |-> loader, latest_file |-> <<>>]}
    ELSE {IF history[i].content.t = "unreadable"
          THEN [success |-> FALSE, loader |-> loader,
                latest_file |-> <<history[i]>>]
          ELSE [success |-> TRUE,
                loader |-> [loader EXCEPT !.previous_data = history[i].content],
                latest_file |-> <<history[i]>>] :
             i \in latest_files(history)}

\* analyze_data on what pd.read_excel returned: the rows of a table without
\* the required columns raise KeyError at the first column access
analyze_read(df) ==
    IF df.t = "columns missing"
    THEN [raised |-> "KeyError", res |-> EmptyResults, ret |-> None]
    ELSE analyze(df)

\* what the loader of the application may hold: nothing yet, or the table
\* of one of the user's datasets, of a sheet without rows or of a sheet
\* without the required columns
AppFrames ==
    {None} \cup {DataFrame(recs) : recs \in AppDatasets}
           \cup {DataFrame(<<>>), MissingColumns}

\* analyze_data for each of these tables
analysis == [df \in AppFrames |-> analyze_read(df)]

\* the role_counts and the results an analyzer of the application may hold
AppCounts == {None} \cup {analysis[df].res.role_counts : df \in AppFrames}

AppResults == {None} \cup {analysis[df].ret : df \in AppFrames}

\* _set_loading_state(is_loading) on the window a
set_loading_state(a, is_loading) ==
    LET state == IF is_loading THEN DISABLED ELSE NORMAL
    IN  [a EXCEPT !.upload_button = state,
                  !.compare_checkbox = state,
                  !.download_button = IF a.current_data # None THEN state ELSE @]

\* the worker threads and the callbacks given to root.after
Thread(target, args) == [target |-> target, args |-> args]

Callback(cb, args) == [cb |-> cb, args |-> args]

\* an argument a scheduled lambda binds, under the name of its parameter
Bound(parameter, value) == [p \in {parameter} |-> value]

Remove(seq, i) == SubSeq(seq, 1, i - 1) \o SubSeq(seq, i + 1, Len(seq))

\* create_comparison_charts for two analyzers given by their role_counts:
\* the previous period is drawn first, the first exception ends the call
comparison_charts(current_counts, previous_counts) ==
    LET ax1 == pie_subplot(previous_counts)
        ax2 == pie_subplot(current_counts)
    IN  IF ax1.raised # "none" THEN [raised |-> ax1.raised, ret |-> None]
        ELSE IF ax2.raised # "none" THEN [raised |-> ax2.raised, ret |-> None]
        ELSE [raised |-> "none",
              ret |-> [previous |-> ax1.ret, current |-> ax2.ret]]

\* the outcomes of compare_with_previous: the exception raised or one of the
\* tables it may return
comparison_outcomes(current, previous) ==
    IF current = None \/ previous = None
    THEN {[raised |-> "ValueError", ret |-> None]}
    ELSE LET table == comparison_data(current, previous)
             keys == [i \in 1..Len(table) |-> table[i].cost_diff]
         IN  IF table = <<>>
             THEN {[raised |-> "KeyError", ret |-> None]}
             ELSE {[raised |-> "none", ret |-> take(table, indexer)] :
                      indexer \in argsort(keys, 1..Len(table))}

\* create_pie_chart, create_comparison_charts and compare_with_previous for
\* each analyzer, or pair of analyzers or results, of the application
pie_charts == [counts \in AppCounts |-> pie_chart(counts)]

comparison_figures ==
    [current \in AppCounts, previous \in AppCounts |->
        comparison_charts(current, previous)]

comparison_tables ==
    [current \in AppResults, previous \in AppResults |->
        comparison_outcomes(current, previous)]

\* the outcomes of create_excel_report on the analyzer: the exception of
\* get_sorted_role_costs, or the workbook saved or not
report_outcomes ==
    IF role_costs = None THEN {"ValueError"}
    ELSE IF role_frame(role_costs, role_counts) = <<>> THEN {"KeyError"}
    ELSE {"none", "OSError"}

\* _upload_file with the file the user picked, and _load_previous_data being
\* part of whoever starts it
_upload_file(file_path) ==
    /\ app.upload_button = NORMAL
    /\ app.events < MaxEvents
    /\ app' = [set_loading_state(app, TRUE) EXCEPT !.events = @ + 1]
    /\ workers' = Append(workers, Thread("_process_file", <<file_path>>))
    /\ call' = Call("_upload_file", <<file_path>>, "none", None)
    /\ UNCHANGED <<records, role_counts, role_costs, department_counts,
                   department_costs, data, loader, history, pending>>

\* _process_file(file_path), run by worker thread i
_process_file(i) ==
    /\ workers[i].target = "_process_file"
    /\ \E file_path \in {workers[i].args[1]} :
       \E l \in load_file(file_path) :
          /\ loader' = l.loader
          /\ history' = l.history
          /\ IF ~l.success
             THEN /\ app' = set_loading_state(app, FALSE)
                  /\ workers' = Remove(workers, i)
                  /\ call' = Call("_process_file", <<file_path>>, "none", None)
                  /\ UNCHANGED <<role_counts, role_costs, department_counts,
                                 department_costs, data, pending>>
             ELSE \E a \in {analysis[l.loader.current_data]} :
                  IF a.raised # "none"
                  THEN /\ app' = [app EXCEPT
                                     !.current_data = l.loader.current_data,
                                     !.errors = @ + 1]
                       /\ pending' = Append(pending,
                                     Callback("_set_loading_state",
                                              <<Bound("is_loading", FALSE)>>))
                       /\ workers' = Remove(workers, i)
                       /\ call' = Call("_process_file", <<file_path>>,
                                       a.raised, None)
                       /\ UNCHANGED <<role_counts, role_costs,
                                      department_counts, department_costs, data>>
                  ELSE /\ role_counts' = a.res.role_counts
                       /\ role_costs' = a.res.role_costs
                       /\ department_counts' = a.res.department_counts
                       /\ department_costs' = a.res.department_costs
                       /\ data' = l.loader.current_data
                       /\ pending' = Append(pending, Callback("_update_ui", <<>>))
                       /\ call' = Call("_process_file", <<file_path>>, "none", None)
                       /\ \E w \in {[app EXCEPT
                                       !.current_data = l.loader.current_data,
                                       !.current_results = a.ret]} :
                             IF app.compare_var
                             THEN /\ app' = set_loading_state(w, TRUE)
                                  /\ workers' =
                                       Append(Remove(workers, i),
                                              Thread("_process_previous_data", <<>>))
                             ELSE /\ app' = w
                                  /\ workers' = Remove(workers, i)
    /\ UNCHANGED records

\* _update_ui, the first callback of the main loop
_update_ui ==
    /\ pending # <<>>
    /\ Head(pending).cb = "_update_ui"
    /\ pending' = Tail(pending)
    /\ \E fig \in {pie_charts[role_counts]} :
          /\ call' = Call("_update_ui", <<>>, fig.raised, None)
          /\ app' = IF fig.raised # "none" THEN app
                    ELSE set_loading_state(
                             [app EXCEPT !.current_figure = fig.ret,
                                         !.download_button = NORMAL], FALSE)
    /\ UNCHANGED <<records, role_counts, role_costs, department_counts,
                   department_costs, data, loader, history, workers>>

\* _set_loading_state(is_loading), the first callback of the main loop
_set_loading_state ==
    /\ pending # <<>>
    /\ Head(pending).cb = "_set_loading_state"
    /\ pending' = Tail(pending)
    /\ app' = set_loading_state(app, Head(pending).args[1].is_loading)
    /\ call' = Call("_set_loading_state", Head(pending).args, "none", None)
    /\ UNCHANGED <<records, role_counts, role_costs, department_counts,
                   department_costs, data, loader, history, workers>>

\* _toggle_comparison, after the user ticked or unticked the checkbox
_toggle_comparison ==
    /\ app.compare_checkbox = NORMAL
    /\ app.events < MaxEvents
    /\ \E w \in {[app EXCEPT !.compare_var = ~@, !.events = @ + 1]} :
          IF w.current_data = None
          THEN app' = w /\ UNCHANGED workers
          ELSE IF w.compare_var
          THEN /\ app' = set_loading_state(w, TRUE)
               /\ workers' = Append(workers, Thread("_process_previous_data", <<>>))
          ELSE /\ app' = [w EXCEPT !.comparison_tab = None]
               /\ UNCHANGED workers
    /\ call' = Call("_toggle_comparison", <<>>, "none", None)
    /\ UNCHANGED <<records, role_counts, role_costs, department_counts,
                   department_costs, data, loader, history, pending>>

\* _process_previous_data without its early return
previous_not_loaded_ignored(l) == FALSE

\* whether _process_previous_data leaves quietly after load_previous_file
\* returned l
previous_not_loaded(l) == ~l.success

\* _process_previous_data, run by worker thread i
_process_previous_data(i) ==
    /\ workers[i].target = "_process_previous_data"
    /\ workers' = Remove(workers, i)
    /\ \E l \in load_previous_file :
          /\ loader' = l.loader
          /\ IF previous_not_loaded(l)
             THEN /\ pending' = Append(pending,
                                     Callback("_set_loading_state",
                                              <<Bound("is_loading", FALSE)>>))
                  /\ call' = Call("_process_previous_data", <<>>, "none", None)
                  /\ UNCHANGED app
             ELSE \E p \in {analysis[l.loader.previous_data]} :
                  \E fig \in {IF p.raised # "none" THEN p
                              ELSE comparison_figures[role_counts,
                                                     p.res.role_counts]} :
                  \E df \in (IF fig.raised # "none" THEN {fig}
                             ELSE comparison_tables[app.current_results,
                                                   p.ret]) :
                     /\ call' = Call("_process_previous_data", <<>>, df.raised, None)
                     /\ app' = [app EXCEPT
                                   !.comparison_figure =
                                       IF fig.raised = "none" THEN fig.ret ELSE @,
                                   !.errors =
                                       IF df.raised = "none" THEN @ ELSE @ + 1]
                     /\ pending' = Append(pending,
                                   IF df.raised = "none"
                                   THEN Callback("_update_comparison_ui",
                                                 <<Bound("comparison_df", df.ret)>>)
                                   ELSE Callback("_set_loading_state",
                                              <<Bound("is_loading", FALSE)>>))
    /\ UNCHANGED <<records, role_counts, role_costs, department_counts,
                   department_costs, data, history>>

\* _update_comparison_ui(comparison_df), the first callback of the main loop
_update_comparison_ui ==
    /\ pending # <<>>
    /\ Head(pending).cb = "_update_comparison_ui"
    /\ pending' = Tail(pending)
    /\ app' = set_loading_state(
                  [app EXCEPT !.comparison_tab =
                      [figure |-> app.comparison_figure,
                       table |-> Head(pending).args[1].comparison_df]], FALSE)
    /\ call' = Call("_update_comparison_ui", Head(pending).args, "none", None)
    /\ UNCHANGED <<records, role_counts, role_costs, department_counts,
                   department_costs, data, loader, history, workers>>

\* _download_report, after the user chose where to save the report
_download_report ==
    /\ app.download_button = NORMAL
    /\ app.events < MaxEvents
    /\ \E w \in {[app EXCEPT !.events = @ + 1]} :
          IF app.current_data = None \/ app.current_figure = None
          THEN app' = w /\ UNCHANGED workers
          ELSE /\ app' = set_loading_state(w, TRUE)
               /\ workers' = Append(workers, Thread("_create_report", <<>>))
    /\ call' = Call("_download_report", <<>>, "none", None)
    /\ UNCHANGED <<records, role_counts, role_costs, department_counts,
                   department_costs, data, loader, history, pending>>

\* _create_report(file_path), run by worker thread i: the message box and,
\* from the finally block, the callback that enables the controls
_create_report(i) ==
    /\ workers[i].target = "_create_report"
    /\ workers' = Remove(workers, i)
    /\ \E raised \in report_outcomes :
          /\ call' = Call("_create_report", <<>>, raised, None)
          /\ pending' = pending
                \o <<Callback(IF raised = "none" THEN "showinfo" ELSE "showerror",
                              <<>>),
                     Callback("_set_loading_state", <<Bound("is_loading", FALSE)>>)>>
    /\ UNCHANGED <<records, role_counts, role_costs, department_counts,
                   department_costs, data, loader, history, app>>

\* the message box of _create_report, the first callback of the main loop
messagebox ==
    /\ pending # <<>>
    /\ Head(pending).cb \in {"showinfo", "showerror"}
    /\ pending' = Tail(pending)
    /\ app' = [app EXCEPT !.errors =
                  IF Head(pending).cb = "showerror" THEN @ + 1 ELSE @]
    /\ call' = Call("messagebox", <<Head(pending).cb>>, "none", None)
    /\ UNCHANGED <<records, role_counts, role_costs, department_counts,
                   department_costs, data, loader, history, workers>>

\* the files of the history folder are removed from outside the application
history_removed ==
    /\ history # <<>>
    /\ history' = <<>>
    /\ UNCHANGED <<records, role_counts, role_costs, department_counts,
                   department_costs, call, data, loader, app, workers, pending>>

\* the application after construction, on one of the user's datasets
InitApp ==
    /\ records \in AppDatasets
    /\ role_counts = None
    /\ role_costs = None
    /\ department_counts = None
    /\ department_costs = None
    /\ call = Call("init", <<>>, "none", None)
    /\ data = None
    /\ loader = LoaderInit
    /\ history \in HistoryFolders
    /\ app = WindowInit
    /\ workers = <<>>
    /\ pending = <<>>

NextApp ==
    \/ \E file_path \in UploadFiles(records) : _upload_file(file_path)
    \/ \E i \in 1..Len(workers) : _process_file(i)
    \/ _update_ui
    \/ _set_loading_state
    \/ _toggle_comparison
    \/ \E i \in 1..Len(workers) : _process_previous_data(i)
    \/ _update_comparison_ui
    \/ _download_report
    \/ \E i \in 1..Len(workers) : _create_report(i)
    \/ messagebox
    \/ history_removed

AppSpec == InitApp /\ [][NextApp]_vars

\* a step of a worker thread or of the main loop's callbacks
Background ==
    \/ \E i \in 1..Len(workers) : _process_file(i)
    \/ \E i \in 1..Len(workers) : _process_previous_data(i)
    \/ \E i \in 1..Len(workers) : _create_report(i)
    \/ _update_ui
    \/ _set_loading_state
    \/ _update_comparison_ui
    \/ messagebox

\* the threads that have been started and the callbacks that have been
\* scheduled; each step of Background takes one of them away
scheduled == <<workers, pending>>

\* the application with its worker threads and its main loop running: while
\* a thread or a callback is waiting, one of them is run
AppFairSpec == AppSpec /\ WF_scheduled(Background)

(* ------------------------------ the loader ----------------------------- *)

\* DataLoader.load_file(file_path), called on the loader itself
call_load_file(file_path) ==
    /\ Len(history) < MaxEvents
    /\ \E l \in load_file(file_path) :
          /\ loader' = l.loader
          /\ history' = l.history
          /\ call' = Call("load_file", <<file_path>>, "none",
                          [success |-> l.success])
    /\ UNCHANGED <<records, role_counts, role_costs, department_counts,
                   department_costs, data, app, workers, pending>>

\* DataLoader.load_previous_file(), called on the loader itself
call_load_previous_file ==
    /\ \E l \in load_previous_file :
          /\ loader' = l.loader
          /\ call' = Call("load_previous_file", <<>>, "none",
                          [success |-> l.success, latest_file |-> l.latest_file])
    /\ UNCHANGED <<records, role_counts, role_costs, department_counts,
                   department_costs, data, history, app, workers, pending>>

NextLoader ==
    \/ \E file_path \in UploadFiles(records) : call_load_file(file_path)
    \/ call_load_previous_file

LoaderSpec == InitApp /\ [][NextLoader]_vars

(* ------------------------------- claims -------------------------------- *)

RECURSIVE SumCounts(_)
SumCounts(d) == IF d = <<>> THEN 0 ELSE Head(d).v + SumCounts(Tail(d))

RECURSIVE SumCosts(_)
SumCosts(d) == IF d = <<>> THEN Zero ELSE RatAdd(Head(d).v, SumCosts(Tail(d)))

\* the latest call was analyze_data and it returned
AnalysisSucceeded == call.name = "analyze_data" /\ call.raised = "none"

\* C1: after a successful analyze_data, each department's cost and count
\* equal the sums of the costs and counts of that department's role buckets.
C1_DepartmentTotalsAreBucketSums ==
    role_counts # None =>
        \A d \in DepartmentSet :
            /\ department_costs[d] = SumCosts(role_costs[d])
            /\ department_counts[d] = SumCounts(role_counts[d])

\* an analysis with two buckets in one department and one in the other
C1_Witness ==
    /\ AnalysisSucceeded
    /\ Len(role_costs[Production]) >= 2
    /\ Len(role_costs[Office]) >= 1
    /\ department_costs[Production] # Zero

\* the state of the row loop after the first i rows of a dataset
AfterRows(rows, i) ==
    process_rows([raised |-> "none", res |-> EmptyResults], SubSeq(rows, 1, i)).res

\* how often a role name occurs in a list of names
Occurrences(roles, role) == Cardinality({j \in 1..Len(roles) : roles[j] = role})

\* the populated (row, department) fields of an analysed dataset
PopulatedFields(rows) ==
    {f \in (1..Len(rows)) \X DepartmentSet : notna(Field(rows[f[1]], f[2]))}

\* C2 as stated: a record with cost C whose field names N roles adds exactly
\* C/N to the cost and exactly 1 to the count of each of the N roles.
C2_EachNamedRoleGetsOneShare ==
    AnalysisSucceeded =>
        \A f \in PopulatedFields(data.rows) :
            LET row == data.rows[f[1]]
                roles == split_roles(Field(row, f[2]))
                before == AfterRows(data.rows, f[1] - 1)
                after == AfterRows(data.rows, f[1])
            IN  \A j \in 1..Len(roles) :
                    /\ DictGet(after.role_costs[f[2]], roles[j], Zero)
                         = RatAdd(DictGet(before.role_costs[f[2]], roles[j], Zero),
                                  RatDiv(Rat(row.cost.n, 1), Len(roles)))
                    /\ DictGet(after.role_counts[f[2]], roles[j], 0)
                         = DictGet(before.role_counts[f[2]], roles[j], 0) + 1

\* C2, amended: a record with cost C whose field splits into N names adds,
\* to a role that occurs k times among the N names, k * C/N to its cost and
\* k to its count (C/N and 1 when the N names are distinct), and nothing to
\* the other roles of the department.
C2_EachOccurrenceGetsOneShare ==
    AnalysisSucceeded =>
        \A f \in PopulatedFields(data.rows) :
            LET row == data.rows[f[1]]
                roles == split_roles(Field(row, f[2]))
                before == AfterRows(data.rows, f[1] - 1)
                after == AfterRows(data.rows, f[1])
                names == DictKeys(after.role_counts[f[2]])
            IN  /\ {roles[j] : j \in 1..Len(roles)} \subseteq names
                /\ \A role \in names :
                    LET k == Occurrences(roles, role)
                    IN  /\ DictGet(after.role_costs[f[2]], role, Zero)
                             = RatAdd(DictGet(before.role_costs[f[2]], role, Zero),
                                      RatMul(RatDiv(Rat(row.cost.n, 1), Len(roles)), k))
                        /\ DictGet(after.role_counts[f[2]], role, 0)
                             = DictGet(before.role_counts[f[2]], role, 0) + k

\* a second row that splits a positive cost between two distinct roles, one
\* of which already has a bucket
C2_Witness ==
    /\ AnalysisSucceeded
    /\ Len(data.rows) = 2
    /\ notna(data.rows[2].prod)
    /\ data.rows[2].cost.n > 0
    /\ LET roles == split_roles(data.rows[2].prod)
       IN  /\ Len(roles) = 2
           /\ roles[1] # roles[2]
           /\ DictHas(AfterRows(data.rows, 1).role_counts[Production], roles[1])

RECURSIVE LaborCostOf(_, _)
\* the sum of laborCost over the rows whose field for a department is populated
LaborCostOf(rows, dept) ==
    IF rows = <<>> THEN Zero
    ELSE RatAdd(IF notna(Field(Head(rows), dept))
                THEN Rat(Head(rows).cost.n, 1) ELSE Zero,
                LaborCostOf(Tail(rows), dept))

\* C3: each department's total cost is the sum of laborCost over the records
\* whose field for that department is populated; a record with both fields
\* populated adds its full laborCost to both departments.
C3_DepartmentCostIsSumOfLaborCost ==
    data # None =>
        \A d \in DepartmentSet : department_costs[d] = LaborCostOf(data.rows, d)

\* an analysed dataset with a record that has both fields populated, several
\* names in one of them and a positive cost
C3_Witness ==
    /\ AnalysisSucceeded
    /\ \E i \in 1..Len(data.rows) :
          /\ notna(data.rows[i].prod)
          /\ notna(data.rows[i].office)
          /\ data.rows[i].cost.n > 0
          /\ Len(split_roles(data.rows[i].prod)) >= 2
    /\ department_costs[Production] # Zero
    /\ department_costs[Office] # Zero

\* C4: analyze_data called with None or with a table of zero rows raises
\* ValueError and returns nothing.
C4_EmptyDatasetRaises ==
    (call.name = "analyze_data"
        /\ (call.args[1] = None \/ call.args[1].rows = <<>>))
    => (call.raised = "ValueError" /\ call.ret = None)

\* a table of zero rows was refused by an analyzer that holds results
C4_Witness ==
    /\ call.name = "analyze_data"
    /\ call.args[1] = DataFrame(<<>>)
    /\ call.raised = "ValueError"
    /\ role_counts # None

\* C5: a failed analyze_data leaves role_counts, role_costs,
\* department_counts and department_costs as they were before the call.
C5_FailedAnalysisKeepsState ==
    [][(call'.name = "analyze_data" /\ call'.raised # "none")
         => UNCHANGED <<role_counts, role_costs, department_counts,
                        department_costs>>]_vars

\* a call failed in the row loop, after it had accumulated buckets, on an
\* analyzer that holds the results of an earlier dataset
C5_Witness ==
    /\ call.name = "analyze_data"
    /\ call.raised = "AttributeError"
    /\ analyze(call.args[1]).res # EmptyResults
    /\ role_counts # None
    /\ data # call.args[1]

ReadOperations ==
    {"get_role_data_for_chart", "get_sorted_role_costs", "get_department_summary"}

\* C6: a read operation requested before any analyze_data call has succeeded
\* raises ValueError and returns no data.
C6_ReadBeforeAnalysisRaises ==
    (call.name \in ReadOperations /\ data = None)
    => (call.raised = "ValueError" /\ call.ret = None)

\* a read was refused on an analyzer without a successful analysis
C6_Witness ==
    /\ call.name = "get_department_summary"
    /\ data = None
    /\ call.raised = "ValueError"

\* the latest call was name and it returned a table
Returned(name) == call.name = name /\ call.raised = "none"

\* the (department, role) buckets of the analyzer
Buckets ==
    {b \in DepartmentSet \X (DictKeys(role_costs[Production])
                               \cup DictKeys(role_costs[Office])) :
        DictHas(role_costs[b[1]], b[2])}

\* a frame has exactly one row per bucket, with the bucket's cost and count
OneRowPerBucket(frame) ==
    /\ Len(frame) = Cardinality(Buckets)
    /\ \A b \in Buckets :
          \E i \in 1..Len(frame) :
              frame[i].row = [department |-> b[1], role |-> b[2],
                              cost |-> DictGet(role_costs[b[1]], b[2], Zero),
                              count |-> DictGet(role_counts[b[1]], b[2], 0)]

\* the rows of a frame are ordered by cost, largest first
CostDescending(frame) ==
    \A i \in 1..Len(frame), j \in 1..Len(frame) :
        i < j => RatLeq(frame[j].row.cost, frame[i].row.cost)

\* rows of equal cost are in the order the buckets were created
TiesInInsertionOrder(frame) ==
    \A i \in 1..Len(frame), j \in 1..Len(frame) :
        (i < j /\ frame[i].row.cost = frame[j].row.cost)
            => frame[i].index < frame[j].index

\* C7 as stated: get_sorted_role_costs returns one row per bucket, ordered
\* by cost descending, rows of equal cost in their insertion order.
C7_SortedByCostStable ==
    Returned("get_sorted_role_costs") =>
        /\ OneRowPerBucket(call.ret)
        /\ CostDescending(call.ret)
        /\ TiesInInsertionOrder(call.ret)

\* C7, amended: on an analysed dataset with at least one bucket,
\* get_sorted_role_costs returns one row per bucket ordered by cost
\* descending (the order among rows of equal cost is not fixed); with no
\* bucket it raises KeyError.
C7_SortedByCost ==
    (call.name = "get_sorted_role_costs" /\ role_costs # None) =>
        IF Buckets = {}
        THEN call.raised = "KeyError"
        ELSE /\ call.raised = "none"
             /\ OneRowPerBucket(call.ret)
             /\ CostDescending(call.ret)

\* a table of three or more rows with a strict decrease of cost and two
\* rows of equal cost that are not in insertion order
C7_Witness ==
    /\ Returned("get_sorted_role_costs")
    /\ Len(call.ret) >= 3
    /\ call.ret[1].row.cost # call.ret[Len(call.ret)].row.cost
    /\ \E i \in 1..Len(call.ret), j \in 1..Len(call.ret) :
          /\ i < j
          /\ call.ret[i].row.cost = call.ret[j].row.cost
          /\ call.ret[i].index > call.ret[j].index

\* the rows of a frame without their index labels
RowList(frame) == [i \in 1..Len(frame) |-> frame[i].row]

RowSet(frame) == {frame[i].row : i \in 1..Len(frame)}

\* the unsorted role frame of a fresh analyzer on the analysed dataset in
\* reversed row order
ReversedFrame ==
    LET a == analyze(DataFrame(Reverse(data.rows)))
    IN  role_frame(a.res.role_costs, a.res.role_counts)

\* the tables get_sorted_role_costs may return for the reversed dataset
ReversedSorted ==
    LET frame == ReversedFrame
        keys == [i \in 1..Len(frame) |-> frame[i].row.cost]
    IN  {take(frame, indexer) : indexer \in argsort(keys, 1..Len(frame))}

\* C8 as stated: analysing the records in reversed row order yields the
\* same get_sorted_role_costs output, the same rows in the same order.
\* Stated for the tables in which rows of equal cost are in insertion order,
\* so that only the order of the input rows differs.
C8_ReversedGivesSameTable ==
    (Returned("get_sorted_role_costs") /\ TiesInInsertionOrder(call.ret)) =>
        \A sorted \in ReversedSorted :
            TiesInInsertionOrder(sorted) => RowList(sorted) = RowList(call.ret)

\* C8, amended: analysing the records in reversed row order yields the same
\* set of rows (same buckets with the same count and cost), again ordered by
\* cost descending; only the order among rows of equal cost may differ. With
\* no bucket both calls raise KeyError.
C8_ReversedGivesSameRows ==
    (call.name = "get_sorted_role_costs" /\ data # None) =>
        /\ analyze(DataFrame(Reverse(data.rows))).raised = "none"
        /\ (call.raised = "KeyError") = (ReversedFrame = <<>>)
        /\ call.raised = "none" =>
              \A sorted \in ReversedSorted :
                  /\ RowSet(sorted) = RowSet(call.ret)
                  /\ Len(sorted) = Len(call.ret)
                  /\ CostDescending(sorted)

\* a table for two different rows that share a role, whose buckets are
\* discovered in another order when the rows are reversed
C8_Witness ==
    /\ Returned("get_sorted_role_costs")
    /\ Len(data.rows) = 2
    /\ data.rows[1] # data.rows[2]
    /\ RowList(ReversedFrame) # RowList(role_frame(role_costs, role_counts))
    /\ \E i \in 1..Len(call.ret) : call.ret[i].row.count >= 2
    /\ call.ret[1].row.cost # call.ret[Len(call.ret)].row.cost

DepartmentsOf(results, role) ==
    {d \in DepartmentSet : DictHas(results.role_counts[d], role)}

\* the count and cost a result records for a role that it holds in at most
\* one department (0 when it holds none)
RecordedCount(results, role) ==
    IF DepartmentsOf(results, role) = {} THEN 0
    ELSE DictGet(results.role_counts[CHOOSE d \in DepartmentsOf(results, role) : TRUE],
                 role, 0)

RecordedCost(results, role) ==
    IF DepartmentsOf(results, role) = {} THEN Zero
    ELSE DictGet(results.role_costs[CHOOSE d \in DepartmentsOf(results, role) : TRUE],
                 role, Zero)

\* C10: compare_with_previous emits exactly one row for each role of the
\* union of the roles of the two results; the row holds the role's count and
\* cost in the current and in the previous result (0 when absent) and their
\* differences. Stated for the roles that each result holds in at most one
\* department.
C10_RowsHoldRecordedValues ==
    Returned("compare_with_previous") =>
        LET current == call.args[1]
            previous == call.args[2]
            all_roles == result_roles(current) \cup result_roles(previous)
        IN  /\ Len(call.ret) = Cardinality(all_roles)
            /\ {call.ret[i].role : i \in 1..Len(call.ret)} = all_roles
            /\ \A i \in 1..Len(call.ret) :
                  LET r == call.ret[i]
                  IN  (Cardinality(DepartmentsOf(current, r.role)) <= 1
                         /\ Cardinality(DepartmentsOf(previous, r.role)) <= 1)
                      => /\ r.current_count = RecordedCount(current, r.role)
                         /\ r.prev_count = RecordedCount(previous, r.role)
                         /\ r.current_cost = RecordedCost(current, r.role)
                         /\ r.prev_cost = RecordedCost(previous, r.role)
                         /\ r.count_diff = r.current_count - r.prev_count
                         /\ r.cost_diff = RatSub(r.current_cost, r.prev_cost)

\* C11: the rows returned by compare_with_previous are ordered by cost delta
\* descending: of two consecutive rows the earlier one has a cost delta
\* greater than or equal to the later one's.
C11_ComparisonSortedByCostDelta ==
    Returned("compare_with_previous") =>
        \A i \in 1..(Len(call.ret) - 1) :
            RatLeq(call.ret[i + 1].cost_diff, call.ret[i].cost_diff)

\* a comparison of two different results with a positive, a zero or negative
\* delta: at least three rows, the first delta above the last
C11_Witness ==
    /\ Returned("compare_with_previous")
    /\ call.args[1] # call.args[2]
    /\ Len(call.ret) >= 3
    /\ call.ret[1].cost_diff # call.ret[Len(call.ret)].cost_diff
    /\ \E i \in 1..Len(call.ret) : ~RatLeq(Zero, call.ret[i].cost_diff)

\* the count and cost a result records for a role over both departments
MergedCount(results, role) ==
    DictGet(results.role_counts[Production], role, 0)
        + DictGet(results.role_counts[Office], role, 0)

MergedCost(results, role) ==
    RatAdd(DictGet(results.role_costs[Production], role, Zero),
           DictGet(results.role_costs[Office], role, Zero))

\* the roles recorded under Production only in the current result and under
\* Office only in the previous result of the latest comparison
RelabelledRoles ==
    {role \in result_roles(call.args[1]) :
        /\ DepartmentsOf(call.args[1], role) = {Production}
        /\ DepartmentsOf(call.args[2], role) = {Office}}

\* C12: for a role recorded under Production in the current result and under
\* Office in the previous result, compare_with_previous emits a single row,
\* in the department the static membership list assigns, and the row's
\* current and previous count and cost include the role's values of both
\* departments, so that nothing recorded for the role is missing.
C12_RowMergesBothDepartments ==
    Returned("compare_with_previous") =>
        \A role \in RelabelledRoles :
            /\ Cardinality({i \in 1..Len(call.ret) : call.ret[i].role = role}) = 1
            /\ \A i \in 1..Len(call.ret) :
                  call.ret[i].role = role =>
                      /\ call.ret[i].department =
                            (IF role \in production_roles THEN Production ELSE Office)
                      /\ call.ret[i].current_count = MergedCount(call.args[1], role)
                      /\ call.ret[i].prev_count = MergedCount(call.args[2], role)
                      /\ call.ret[i].current_cost = MergedCost(call.args[1], role)
                      /\ call.ret[i].prev_cost = MergedCost(call.args[2], role)

\* the figures of the latest visualizer call that returned, each with the
\* role_counts of the analyzer it was drawn for
Figures ==
    IF Returned("create_pie_chart")
    THEN {[counts |-> call.args[1], fig |-> call.ret]}
    ELSE IF Returned("create_comparison_charts")
    THEN {[counts |-> call.args[1], fig |-> call.ret.current],
          [counts |-> call.args[2], fig |-> call.ret.previous]}
    ELSE {}

\* the figures with wedges
RingFigures == {f \in Figures : f.fig.outer # <<>>}

\* the chart entries of a figure: the role buckets in iteration order,
\* Production before Office
EntryLabels(counts) ==
    [i \in 1..Len(counts[Production]) |-> counts[Production][i].k]
        \o [i \in 1..Len(counts[Office]) |-> counts[Office][i].k]

EntrySizes(counts) ==
    [i \in 1..Len(counts[Production]) |-> counts[Production][i].v]
        \o [i \in 1..Len(counts[Office]) |-> counts[Office][i].v]

EntryDepartments(counts) ==
    [i \in 1..Len(counts[Production]) |-> Production]
        \o [i \in 1..Len(counts[Office]) |-> Office]

TotalSize(counts) ==
    SumCounts(counts[Production]) + SumCounts(counts[Office])

\* a full circle and the share k / n of it, in degrees
FullCircle == Rat(360, 1)

ShareOfCircle(k, n) == Rat(360 * k, n)

\* the angular width of a wedge
Width(wedge) == RatSub(wedge.theta2, wedge.theta1)

\* the outer ring of the entries (A, 30), (B, 70)
ExampleRing ==
    outer_wedges([labels |-> <<"A", "B">>, sizes |-> <<30, 70>>,
                  colors |-> <<"blue", "blue">>], 100, 1, Zero)

\* C13: the outer ring has one wedge per entry, in the entries' iteration
\* order; the first wedge starts at angle 0, every wedge starts where the
\* previous one ends, and wedge i is size_i / sum(sizes) of the full circle
\* wide. The entries (A, 30), (B, 70) give the wedges [0, 0.3 of the circle]
\* and [0.3 of the circle, full circle].
C13_OuterRingLaidOutFromZero ==
    /\ \A f \in RingFigures :
          LET outer == f.fig.outer
              sizes == EntrySizes(f.counts)
          IN  /\ Len(outer) = Len(sizes)
              /\ [i \in 1..Len(outer) |-> outer[i].label] = EntryLabels(f.counts)
              /\ outer[1].theta1 = Zero
              /\ \A i \in 1..(Len(outer) - 1) : outer[i + 1].theta1 = outer[i].theta2
              /\ \A i \in 1..Len(outer) :
                    Width(outer[i]) = ShareOfCircle(sizes[i], TotalSize(f.counts))
    /\ [i \in 1..2 |-> <<ExampleRing[i].theta1, ExampleRing[i].theta2>>]
          = << <<Zero, ShareOfCircle(3, 10)>>, <<ShareOfCircle(3, 10), FullCircle>> >>

\* a pie chart of at least three entries of different sizes
C13_Witness ==
    /\ Returned("create_pie_chart")
    /\ Len(call.ret.outer) >= 3
    /\ \E i, j \in 1..Len(call.ret.outer) :
          call.ret.outer[i].size # call.ret.outer[j].size

RECURSIVE SumWidths(_)
SumWidths(ring) ==
    IF ring = <<>> THEN Zero ELSE RatAdd(Width(Head(ring)), SumWidths(Tail(ring)))

\* C14: in every layout with positive total size the widths of the wedges of
\* the outer ring add up to one full circle, and so do, independently, the
\* widths of the wedges of the inner ring.
C14_WidthsSumToFullCircle ==
    \A f \in Figures :
        (f.counts # None /\ TotalSize(f.counts) > 0) =>
            /\ SumWidths(f.fig.outer) = FullCircle
            /\ SumWidths(f.fig.inner) = FullCircle

\* a pie chart with both departments and a department of several roles
C14_Witness ==
    /\ Returned("create_pie_chart")
    /\ Len(call.ret.inner) = 2
    /\ Len(call.ret.outer) >= 3
    /\ TotalSize(call.args[1]) >= 4

\* the departments of a list of department labels in the order of their
\* first appearance
RECURSIVE FirstAppearance(_)
FirstAppearance(labels) ==
    IF labels = <<>> THEN <<>>
    ELSE LET front == FirstAppearance(Front(labels))
             last == labels[Len(labels)]
         IN  IF \E i \in 1..Len(front) : front[i] = last
             THEN front ELSE Append(front, last)

\* C15: the inner ring has one wedge per department present among the
\* entries, in the order of first appearance among the outer entries; the
\* outer wedges of a department are consecutive, and the department's inner
\* wedge starts where the first of them starts and ends where the last of
\* them ends, so that every boundary of the inner ring is a boundary of the
\* outer ring.
C15_InnerRingAlignsWithOuter ==
    \A f \in RingFigures :
        LET outer == f.fig.outer
            inner == f.fig.inner
            depts == EntryDepartments(f.counts)
        IN  /\ [i \in 1..Len(inner) |-> inner[i].dept] = FirstAppearance(depts)
            /\ \A k \in 1..Len(inner) :
                  LET own == {i \in 1..Len(outer) : depts[i] = inner[k].dept}
                      lo == CHOOSE i \in own : \A j \in own : i <= j
                      hi == CHOOSE i \in own : \A j \in own : j <= i
                  IN  /\ own = lo..hi
                      /\ inner[k].theta1 = outer[lo].theta1
                      /\ inner[k].theta2 = outer[hi].theta2

\* a pie chart with both departments, Production with several roles, whose
\* inner boundary lies inside the circle
C15_Witness ==
    /\ Returned("create_pie_chart")
    /\ Len(call.ret.inner) = 2
    /\ Len(call.args[1][Production]) >= 2
    /\ call.ret.inner[2].theta1 # Zero
    /\ call.ret.inner[1].size # call.ret.inner[2].size

\* C16: create_pie_chart for chart data whose sizes add up to 0 fails with
\* an error (ValueError) and no division by zero happens: the total is
\* positive whenever the angles are computed.
C16_EmptyChartRaises ==
    call.name = "create_pie_chart" =>
        /\ call.raised # "ZeroDivisionError"
        /\ (call.args[1] # None /\ TotalSize(call.args[1]) = 0) =>
              (call.raised = "ValueError" /\ call.ret = None)
        /\ call.raised = "none" => TotalSize(call.args[1]) > 0

\* a pie chart was asked for after an analysis that found no role
C16_Witness ==
    /\ call.name = "create_pie_chart"
    /\ call.args[1] # None
    /\ TotalSize(call.args[1]) = 0
    /\ call.raised = "ValueError"
    /\ data # None

\* the figure of one period of the comparison charts, as it must be
PeriodFigure(counts) ==
    IF EntrySizes(counts) = <<>>
    THEN [text |-> "Net dannyh", outer |-> <<>>, inner |-> <<>>]
    ELSE pie_chart(counts).ret

\* C17: create_comparison_charts lays out each period independently: for
\* two analysed results it does not fail, a period with no role entry gets
\* the "no data" text and no wedge, and a period with entries gets the
\* wedges of its own single-period layout whatever the other period holds.
C17_EmptyPeriodGetsPlaceholder ==
    (call.name = "create_comparison_charts"
        /\ call.args[1] # None /\ call.args[2] # None) =>
        /\ call.raised = "none"
        /\ call.ret.current = PeriodFigure(call.args[1])
        /\ call.ret.previous = PeriodFigure(call.args[2])

\* comparison charts of a current period with several entries and a
\* previous period without any
C17_Witness ==
    /\ Returned("create_comparison_charts")
    /\ call.ret.previous.text = "Net dannyh"
    /\ call.ret.previous.outer = <<>>
    /\ Len(call.ret.current.outer) >= 2
    /\ Len(call.ret.current.inner) >= 1

\* a responsible-party cell without content: empty (NaN), the empty string,
\* or blanks only
EmptyField(cell) == isna(cell) \/ \A i \in 1..Len(cell.s) : cell.s[i] = " "

\* C18: a missing, null or empty responsible-party field yields an empty
\* role sequence, and the record contributes nothing to that department: no
\* role bucket, no count, no cost.
C18_EmptyFieldContributesNothing ==
    /\ (call.name = "_split_roles" /\ EmptyField(call.args[1])) =>
          call.ret = <<>>
    /\ (AnalysisSucceeded /\ EmptyField(data.rows[1].prod)) =>
          /\ role_counts[Production] = <<>>
          /\ role_costs[Production] = <<>>
          /\ department_counts[Production] = 0
          /\ department_costs[Production] = Zero

\* how many delimiters a text holds
NumberOfSlashes(s) == Cardinality({i \in 1..Len(s) : s[i] = "/"})

\* the i-th stretch of a text between delimiters (or the ends of the text)
Stretch(s, i) ==
    LET cuts == {0, Len(s) + 1} \cup {j \in 1..Len(s) : s[j] = "/"}
        from == CHOOSE j \in cuts : Cardinality({k \in cuts : k < j}) = i - 1
        to == CHOOSE j \in cuts : Cardinality({k \in cuts : k < j}) = i
    IN  SubSeq(s, from + 1, to - 1)

Blanks(n) == [i \in 1..n |-> " "]

\* t is the text x without its leading and trailing blanks
IsTrimmed(t, x) ==
    /\ t = <<>> \/ (t[1] # " " /\ t[Len(t)] # " ")
    /\ \E a, b \in 0..Len(x) : x = Blanks(a) \o t \o Blanks(b)

\* C19: a populated field is split on every "/" into pieces trimmed of
\* surrounding blanks: the output has (number of "/") + 1 names, the i-th
\* name is the trimmed i-th stretch of the input, and a piece that is empty
\* after trimming is kept as an empty-string role, which gets a bucket, a
\* count and a cost share cost / (number of names) per occurrence like any
\* other role.
C19_PopulatedFieldSplitOnEverySlash ==
    /\ (call.name = "_split_roles" /\ notna(call.args[1])) =>
          /\ Len(call.ret) = NumberOfSlashes(call.args[1].s) + 1
          /\ \A i \in 1..Len(call.ret) :
                IsTrimmed(call.ret[i], Stretch(call.args[1].s, i))
    /\ (AnalysisSucceeded /\ notna(data.rows[1].prod)) =>
          LET s == data.rows[1].prod.s
              n == NumberOfSlashes(s) + 1
              names == {t \in DictKeys(role_counts[Production]) \cup {<<>>} :
                           \E i \in 1..n : IsTrimmed(t, Stretch(s, i))}
              times(t) == Cardinality({i \in 1..n : IsTrimmed(t, Stretch(s, i))})
          IN  /\ DictKeys(role_counts[Production]) = names
              /\ \A t \in names :
                    /\ DictGet(role_counts[Production], t, 0) = times(t)
                    /\ DictGet(role_costs[Production], t, Zero)
                          = RatMul(Rat(data.rows[1].cost.n, n), times(t))
              /\ department_counts[Production] = n

\* a text with a blank, a named piece and an empty piece was analysed into
\* a bucket for the name and a bucket for the empty name
C19_Witness ==
    /\ AnalysisSucceeded
    /\ notna(data.rows[1].prod)
    /\ \E i \in 1..Len(data.rows[1].prod.s) : data.rows[1].prod.s[i] = " "
    /\ DictHas(role_counts[Production], <<>>)
    /\ DictHas(role_counts[Production], <<"Rezka">>)
    /\ role_costs[Production][1].v = Rat(data.rows[1].cost.n, 2)

\* a step of _process_previous_data taken when load_previous_file returns
\* False (no file in the history folder)
PreviousDataMissingStep ==
    /\ history = <<>>
    /\ workers' # workers
    /\ call'.name = "_process_previous_data"

\* a step of the main loop that runs a pending _set_loading_state(False)
ControlsCallbackStep ==
    /\ pending # <<>>
    /\ Head(pending).cb = "_set_loading_state"
    /\ Head(pending).args = <<Bound("is_loading", FALSE)>>
    /\ pending' = Tail(pending)

\* C20: when the comparison is requested and load_previous_file returns
\* False, _process_previous_data skips the comparison without an error: no
\* exception is caught and no error box shown, no comparison figure or tab is
\* produced, the window's and the analyzer's results stay as they are, and
\* the callback that re-enables the controls is scheduled; when the main
\* loop runs that callback the upload button and the checkbox (and, with
\* data loaded, the download button) are enabled.
C20_MissingPreviousFileSkipsComparison ==
    [][/\ PreviousDataMissingStep =>
            /\ call'.raised = "none"
            /\ app' = app
            /\ UNCHANGED <<role_counts, role_costs, department_counts,
                           department_costs, data>>
            /\ loader'.previous_data = loader.previous_data
            /\ Len(pending') = Len(pending) + 1
            /\ SubSeq(pending', 1, Len(pending)) = pending
            /\ pending'[Len(pending')].cb = "_set_loading_state"
            /\ pending'[Len(pending')].args = <<Bound("is_loading", FALSE)>>
       /\ ControlsCallbackStep =>
            /\ app'.upload_button = NORMAL
            /\ app'.compare_checkbox = NORMAL
            /\ app.current_data # None => app'.download_button = NORMAL
            /\ app'.errors = app.errors
            /\ app'.comparison_tab = app.comparison_tab
            /\ app'.current_results = app.current_results]_vars

\* the comparison was requested for analysed data, no previous file was
\* ever loaded, and the controls were enabled again afterwards
C20_Witness ==
    /\ call.name = "_set_loading_state"
    /\ app.compare_var
    /\ app.current_results # None
    /\ history = <<>>
    /\ loader.previous_data = None
    /\ workers = <<>>
    /\ pending = <<>>
    /\ app.errors = 0
    /\ app.comparison_tab = None
    /\ app.comparison_figure = None
    /\ app.upload_button = NORMAL
    /\ app.download_button = NORMAL

\* the rows of the latest comparison table for a role
RowsOf(role) == {i \in 1..Len(call.ret) : call.ret[i].role = role}

\* C27: every role name that has a bucket in the current or in the previous
\* result of a comparison has a row in the table, and for a result that holds
\* the role in one department the row shows exactly the count and the cost
\* recorded there, also for a role name of neither membership list: no
\* recorded count or cost is shown as 0.
C27_RecordedValuesAreNotZeroed ==
    Returned("compare_with_previous") =>
        \A role \in result_roles(call.args[1]) \cup result_roles(call.args[2]) :
            /\ RowsOf(role) # {}
            /\ \A i \in RowsOf(role) :
                  /\ Cardinality(DepartmentsOf(call.args[1], role)) = 1
                       => /\ call.ret[i].current_count
                               = RecordedCount(call.args[1], role)
                          /\ call.ret[i].current_cost
                               = RecordedCost(call.args[1], role)
                          /\ call.ret[i].current_count >= 1
                  /\ Cardinality(DepartmentsOf(call.args[2], role)) = 1
                       => /\ call.ret[i].prev_count
                               = RecordedCount(call.args[2], role)
                          /\ call.ret[i].prev_cost
                               = RecordedCost(call.args[2], role)
                          /\ call.ret[i].prev_count >= 1

\* the dictionaries of an analyzer that was never used
FreshDictionaries ==
    [role_counts |-> [d \in DepartmentSet |-> <<>>],
     role_costs |-> [d \in DepartmentSet |-> <<>>],
     department_counts |-> [d \in DepartmentSet |-> 0],
     department_costs |-> [d \in DepartmentSet |-> Zero]]

\* what a fresh analyzer computes for the rows of a dataset
FreshResults(df) ==
    process_rows([raised |-> "none", res |-> FreshDictionaries], df.rows).res

\* C28: after any sequence of analyze_data calls on one analyzer, its role
\* and department counts and costs are those a fresh analyzer computes for
\* the dataset of the latest successful call (nothing is carried over from
\* earlier calls); before the first successful call it holds no results.
C28_ResultsOfLatestSuccessfulDataset ==
    IF data = None
    THEN role_counts = None /\ role_costs = None
         /\ department_counts = None /\ department_costs = None
    ELSE /\ role_counts = FreshResults(data).role_counts
         /\ role_costs = FreshResults(data).role_costs
         /\ department_counts = FreshResults(data).department_counts
         /\ department_costs = FreshResults(data).department_costs

\* a successful call on the records without the last row, whose results
\* differ from those of all the records (which analyze_data is also called
\* with), with buckets in both
C28_Witness ==
    /\ Returned("analyze_data")
    /\ Len(records) >= 2
    /\ data = DataFrame(Front(records))
    /\ call.args[1] = data
    /\ analyze(DataFrame(records)).raised = "none"
    /\ FreshResults(DataFrame(records)) # FreshResults(data)
    /\ department_counts[Production] >= 1
    /\ role_counts = FreshResults(data).role_counts

\* the responsible-party cells of a dataset that analyze_data treats as
\* populated and hands to _split_roles
PopulatedCells(df) ==
    {Field(df.rows[i], dept) : i \in 1..Len(df.rows), dept \in DepartmentSet}
        \ {NaN}

\* C29: whenever a responsible-party field is treated as populated, the role
\* list _split_roles produces for it holds at least one role, so the divisor
\* len(roles) of labor_cost / len(roles) in analyze_data is at least 1 and
\* the division never divides by zero.
C29_DivisorIsAtLeastOne ==
    /\ (call.name = "_split_roles" /\ notna(call.args[1]))
          => Len(call.ret) >= 1
    /\ (call.name = "analyze_data" /\ call.args[1] # None)
          => /\ \A cell \in PopulatedCells(call.args[1]) :
                   Len(split_roles(cell)) >= 1
             /\ call.raised = "none"
                   => \A dept \in DepartmentSet :
                         department_costs[dept].d >= 1

\* an analysed record whose production cell is the empty text or holds
\* nothing but a blank: one role with an empty name, the cost divided by 1
C29_Witness ==
    /\ Returned("analyze_data")
    /\ data.rows[1].prod \in {Str(<<>>), Str(<<" ">>)}
    /\ Len(split_roles(data.rows[1].prod)) = 1
    /\ role_costs[Production] = <<[k |-> <<>>, v |-> Rat(data.rows[1].cost.n, 1)]>>

\* a step of _process_file that fails (load_file returned False or
\* analyze_data raised: no _update_ui is scheduled) on an application that
\* holds the results of an earlier dataset
FailedProcessStep ==
    /\ data # None
    /\ call'.name = "_process_file"
    /\ workers' # workers
    /\ ~(/\ Len(pending') = Len(pending) + 1
         /\ pending'[Len(pending')].cb = "_update_ui")

\* C21: when processing a newly uploaded file fails, the application keeps
\* the state of the last successfully analysed dataset: its current data,
\* its current results, the analyzer's dictionaries and the chart are what
\* they were, all of the same dataset.
C21_FailedUploadKeepsState ==
    [][FailedProcessStep =>
          /\ app'.current_data = app.current_data
          /\ app'.current_results = app.current_results
          /\ app'.current_figure = app.current_figure
          /\ UNCHANGED <<role_counts, role_costs, department_counts,
                         department_costs, data>>]_vars

\* a step of _process_file that gets to analyze_data: load_file returned
\* True, so that a callback is scheduled whatever the analysis does
CurrentAnalysedStep ==
    /\ call'.name = "_process_file"
    /\ workers' # workers
    /\ pending' # pending

\* a step of _process_previous_data that gets to analyze_data: it does not
\* end in the quiet return taken when load_previous_file returns False
PreviousAnalysedStep ==
    /\ call'.name = "_process_previous_data"
    /\ workers' # workers
    /\ ~(/\ call'.raised = "none"
         /\ pending'[Len(pending')].cb = "_set_loading_state")

LoadedAfterAnother ==
    /\ Len(history) >= 2
    /\ history[1].name[2] >= 1
    /\ history[2].name[2] >= 1
    /\ loader.current_data = history[1].content

\* C23: after load_file(A) and then load_file(B), a load_previous_file that
\* succeeds has taken the copy of A, the file archived before the one now
\* loaded, and previous_data is the content of A, not that of the copy of B.
C23_PreviousFileIsNotTheCurrentOne ==
    (/\ call.name = "load_previous_file"
     /\ call.ret.success
     /\ LoadedAfterAnother)
        => /\ call.ret.latest_file = <<history[2]>>
           /\ loader.previous_data = history[2].content

\* C24: a load_file call that returns True has set current_data to the table
\* read from the file and has added one copy of the file to the history
\* folder, which thereby gains exactly one file; a call that returns False
\* leaves current_data and the history folder as they were.
C24_LoadArchivesExactlyOnce ==
    [][call'.name = "load_file" =>
          IF call'.ret.success
          THEN /\ loader'.current_data = call'.args[1].content
               /\ Len(history') = Len(history) + 1
               /\ history'[1].content = call'.args[1].content
          ELSE /\ loader'.current_data = loader.current_data
               /\ history' = history]_vars

\* the user has just started an upload: _upload_file has disabled the
\* controls and started the worker
UploadStarted ==
    /\ call.name = "_upload_file"
    /\ app.upload_button = DISABLED
    /\ app.compare_checkbox = DISABLED
    /\ workers # <<>>

\* the upload button and the comparison checkbox can be used
ControlsEnabled ==
    /\ app.upload_button = NORMAL
    /\ app.compare_checkbox = NORMAL

\* C25: after the user has started an upload, the upload button and the
\* comparison checkbox are eventually enabled again, whatever the outcome of
\* loading, analysis, chart creation and comparison, provided the worker
\* threads and the callbacks of the main loop are run.
C25_UploadEventuallyEnablesControls == UploadStarted ~> ControlsEnabled

\* C26: while a worker thread (file processing, previous-data comparison or
\* report creation) is still running, the upload button and the comparison
\* checkbox are disabled, so that no second worker can be started by the user
\* while the first one uses the analyzer.
C26_ControlsDisabledWhileWorking ==
    workers # <<>> =>
        /\ app.upload_button = DISABLED
        /\ app.compare_checkbox = DISABLED

====
